---- MODULE Spec2Model ----
(***************************************************************************)
(* Model of src/index.js: the HesabeCrypt envelope (encryptAes, decryptAes, *)
(* pkcs5Strip) and the POST /hesabe/create-indirect-payment handler.        *)
(*                                                                          *)
(* A JavaScript string is a sequence of UTF-16 code units (numbers), a byte *)
(* array a sequence of numbers in 0..255.  A call that may throw returns    *)
(* Return(v) or Throw(message).                                             *)
(***************************************************************************)
EXTENDS Integers, Sequences, FiniteSets, TLC

VARIABLES key, iv, config, input, encOut, decOut, stripOut, reqs

vars == <<key, iv, config, input, encOut, decOut, stripOut, reqs>>

Return(v) == [ok |-> TRUE, value |-> v]

Throw(msg) == [ok |-> FALSE, error |-> msg]

None == [ok |-> FALSE, error |-> "not run"]

(***************************************************************************)
(* Bounds of the inputs.                                                    *)
(***************************************************************************)
MaxTextLen == 34

(***************************************************************************)
(* aes-js helpers used by HesabeCrypt (library code, modelled by what it    *)
(* does on the arrays).                                                     *)
(***************************************************************************)
Repeat(n, c) == [i \in 1..n |-> c]

\* The concatenation of the sequences ss[lo], ..., ss[hi].
RECURSIVE FlattenRange(_, _, _)
FlattenRange(ss, lo, hi) ==
    IF lo > hi THEN <<>>
    ELSE IF lo = hi THEN ss[lo]
    ELSE LET mid == (lo + hi) \div 2 IN
         FlattenRange(ss, lo, mid) \o FlattenRange(ss, mid + 1, hi)

Flatten(ss) == FlattenRange(ss, 1, Len(ss))

IsHighSurrogate(c) == c >= 55296 /\ c <= 56319

IsLowSurrogate(c) == c >= 56320 /\ c <= 57343

\* aesjs.utils.utf8.toBytes: encodeURI's UTF-8 of the text; encodeURI throws
\* URIError on a surrogate that is not part of a pair.
Utf8Malformed(s) ==
    \E i \in 1..Len(s) :
        \/ IsHighSurrogate(s[i]) /\ (i = Len(s) \/ ~IsLowSurrogate(s[i + 1]))
        \/ IsLowSurrogate(s[i]) /\ (i = 1 \/ ~IsHighSurrogate(s[i - 1]))

Utf8Unit(s, i) ==
    LET c == s[i] IN
    IF c < 128 THEN <<c>>
    ELSE IF c < 2048 THEN <<192 + (c \div 64), 128 + (c % 64)>>
    ELSE IF IsHighSurrogate(c) THEN
        LET cp == 65536 + (c - 55296) * 1024 + (s[i + 1] - 56320) IN
        <<240 + (cp \div 262144), 128 + ((cp \div 4096) % 64),
          128 + ((cp \div 64) % 64), 128 + (cp % 64)>>
    ELSE IF IsLowSurrogate(c) THEN <<>>
    ELSE <<224 + (c \div 4096), 128 + ((c \div 64) % 64), 128 + (c % 64)>>

utf8ToBytes(s) ==
    IF Utf8Malformed(s) THEN Throw("URIError: URI malformed")
    ELSE Return(Flatten([i \in 1..Len(s) |-> Utf8Unit(s, i)]))

\* bytes[i] of a JavaScript array, undefined past the end; undefined & mask is 0.
ByteAt(bytes, i) == IF i <= Len(bytes) THEN bytes[i] ELSE 0

\* aesjs.utils.utf8.fromBytes: a byte below 128 is one character, a byte in
\* 192..223 starts a character of two bytes, any other byte one of three.
Utf8Width(c) == IF c < 128 THEN 1 ELSE IF c > 191 /\ c < 224 THEN 2 ELSE 3

Utf8Char(bytes, i) ==
    LET c == bytes[i] IN
    IF c < 128 THEN c
    ELSE IF c > 191 /\ c < 224 THEN (c % 32) * 64 + (ByteAt(bytes, i + 1) % 64)
    ELSE (c % 16) * 4096 + (ByteAt(bytes, i + 1) % 64) * 64
            + (ByteAt(bytes, i + 2) % 64)

\* The characters that start at the positions lo..hi-1, lo being the start of
\* one, and the position at which the next character starts.
RECURSIVE Utf8Decode(_, _, _)
Utf8Decode(bytes, lo, hi) ==
    IF lo >= hi THEN [s |-> <<>>, next |-> lo]
    ELSE IF hi - lo = 1
    THEN [s |-> <<Utf8Char(bytes, lo)>>, next |-> lo + Utf8Width(bytes[lo])]
    ELSE LET mid == (lo + hi) \div 2
             a == Utf8Decode(bytes, lo, mid)
             b == Utf8Decode(bytes, a.next, hi)
         IN [s |-> a.s \o b.s, next |-> b.next]

utf8FromBytes(bytes) == Utf8Decode(bytes, 1, Len(bytes) + 1).s

\* aesjs.padding.pkcs7.pad: 16 - (length % 16) bytes of that value.
BlockSize == 16

pkcs7Pad_noFullBlock(bytes) ==
    LET padder == (BlockSize - (Len(bytes) % BlockSize)) % BlockSize IN
    bytes \o Repeat(padder, padder)

pkcs7Pad(bytes) ==
    LET padder == BlockSize - (Len(bytes) % BlockSize) IN
    bytes \o Repeat(padder, padder)

\* aesjs.utils.hex.fromBytes: two lower-case hex digits per byte.
HexDigit(n) == IF n < 10 THEN 48 + n ELSE 87 + n

hexFromBytes(bytes) ==
    [i \in 1..(2 * Len(bytes)) |->
        LET b == bytes[(i + 1) \div 2] IN
        IF i % 2 = 1 THEN HexDigit(b \div 16) ELSE HexDigit(b % 16)]

\* The value of a hex digit, -1 for any other code unit.
HexValue(c) ==
    IF c >= 48 /\ c <= 57 THEN c - 48
    ELSE IF c >= 97 /\ c <= 102 THEN c - 87
    ELSE IF c >= 65 /\ c <= 70 THEN c - 55
    ELSE -1

\* parseInt(chunk, 16) of a chunk of one or two code units: the leading hex
\* digits, NaN (-1 here) when there is none.
ParseHexChunk(text, i) ==
    LET a == HexValue(text[i])
        b == IF i + 1 <= Len(text) THEN HexValue(text[i + 1]) ELSE -1
    IN IF a < 0 THEN -1 ELSE IF b < 0 THEN a ELSE 16 * a + b

\* aesjs.utils.hex.toBytes: parseInt of every two characters.
hexToBytes(text) ==
    [j \in 1..((Len(text) + 1) \div 2) |-> ParseHexChunk(text, 2 * j - 1)]

Bit(a, i) == (a \div (2 ^ i)) % 2

\* a ^ b of two 4-bit values, tabulated at index 16 * a + b + 1.
XorNibbleTable ==
    [n \in 1..256 |->
        LET a == (n - 1) \div 16
            b == (n - 1) % 16
            x(i) == ((Bit(a, i) + Bit(b, i)) % 2) * (2 ^ i)
        IN x(0) + x(1) + x(2) + x(3)] \o <<>>

\* a ^ b of two bytes
XorByte(a, b) ==
    16 * XorNibbleTable[16 * (a \div 16) + (b \div 16) + 1]
        + XorNibbleTable[16 * (a % 16) + (b % 16) + 1]

XorBlock(a, b) == [i \in 1..BlockSize |-> XorByte(a[i], b[i])]

\* The block cipher under the key: a key-dependent bijection of 16-byte blocks
\* standing for AES-256 (a byte rotation and a keyed addition).
BlockEncrypt(k, b) ==
    [i \in 1..BlockSize |-> (b[(i % BlockSize) + 1] + k[i] + k[i + BlockSize]) % 256]

BlockDecrypt(k, c) ==
    [j \in 1..BlockSize |->
        LET i == ((j + BlockSize - 2) % BlockSize) + 1 IN
        (c[i] + 512 - k[i] - k[i + BlockSize]) % 256]

BlockOf(bytes, n) == SubSeq(bytes, BlockSize * (n - 1) + 1, BlockSize * n)

\* ModeOfOperation.cbc(key, iv).encrypt: each block is xored with the previous
\* cipher block (the iv for the first) and encrypted.  The first n blocks:
RECURSIVE CbcEncryptBlocks(_, _, _, _)
CbcEncryptBlocks(k, v, bytes, n) ==
    IF n = 0 THEN <<>>
    ELSE LET done == CbcEncryptBlocks(k, v, bytes, n - 1)
             prev == IF n = 1 THEN v ELSE BlockOf(done, n - 1)
         IN done \o BlockEncrypt(k, XorBlock(BlockOf(bytes, n), prev))

cbcEncrypt(k, v, bytes) ==
    IF Len(bytes) % BlockSize # 0
    THEN Throw("invalid plaintext size (must be multiple of 16 bytes)")
    ELSE Return(CbcEncryptBlocks(k, v, bytes, Len(bytes) \div BlockSize))

\* coerceArray rejects a value that is not an integer in 0..255 (NaN from a
\* chunk with no hex digit); decrypt rejects a length that is no multiple of 16.
cbcDecrypt(k, v, bytes) ==
    IF \E i \in 1..Len(bytes) : bytes[i] < 0 \/ bytes[i] > 255
    THEN Throw("Array contains invalid value")
    ELSE IF Len(bytes) % BlockSize # 0
    THEN Throw("invalid ciphertext size (must be multiple of 16 bytes)")
    ELSE Return(Flatten([n \in 1..(Len(bytes) \div BlockSize) |->
            XorBlock(BlockDecrypt(k, BlockOf(bytes, n)),
                     IF n = 1 THEN v ELSE BlockOf(bytes, n - 1))]))

(***************************************************************************)
(* HesabeCrypt                                                              *)
(***************************************************************************)
StripMinLen == 32

StripMaxPad == 32

\* data.substr(0, len)
Substr0(data, len) == SubSeq(data, 1, IF len < 0 THEN 0 ELSE len)

pkcs5Strip_strictBound(data) ==
    LET dataLen == Len(data) IN
    IF dataLen < StripMinLen
    THEN Throw("Invalid data length. Block size must be 32 bytes")
    ELSE LET padderCodeInt == data[dataLen] IN
         IF padderCodeInt >= StripMaxPad
         THEN Throw("PKCS#5 padding byte out of range")
         ELSE Return(Substr0(data, dataLen - padderCodeInt))

pkcs5Strip(data) ==
    LET dataLen == Len(data) IN
    IF dataLen < StripMinLen
    THEN Throw("Invalid data length. Block size must be 32 bytes")
    ELSE LET padderCodeInt == data[dataLen] IN
         IF padderCodeInt > StripMaxPad
         THEN Throw("PKCS#5 padding byte out of range")
         ELSE Return(Substr0(data, dataLen - padderCodeInt))

encryptAes(k, v, plainText) ==
    LET txt == utf8ToBytes(plainText) IN
    IF ~txt.ok THEN txt
    ELSE LET enc == cbcEncrypt(k, v, pkcs7Pad(txt.value)) IN
         IF ~enc.ok THEN enc ELSE Return(hexFromBytes(enc.value))

decryptAes(k, v, encHex) ==
    LET dec == cbcDecrypt(k, v, hexToBytes(encHex)) IN
    IF ~dec.ok THEN dec ELSE pkcs5Strip(utf8FromBytes(dec.value))

\* new HesabeCrypt(SECRET_KEY, IV_KEY): the UTF-8 bytes of a 32-character
\* secret and of a 16-character iv.
SecretKey == [i \in 1..32 |-> 64 + i]

IvKey == [i \in 1..16 |-> 47 + i]


(***************************************************************************)
(* String literals, as sequences of code units.                             *)
(***************************************************************************)
\* "10.000"
L_amount == <<49, 48, 46, 48, 48, 48>>

\* "KWD"
L_KWD == <<75, 87, 68>>

\* "BOOKING-1"
L_order == <<66, 79, 79, 75, 73, 78, 71, 45, 49>>

\* "https://x/ok"
L_okUrl == <<104, 116, 116, 112, 115, 58, 47, 47, 120, 47, 111, 107>>

\* "https://x/fail"
L_failUrl == <<104, 116, 116, 112, 115, 58, 47, 47, 120, 47, 102, 97, 105,
    108>>

\* "https://a"
L_urlA == <<104, 116, 116, 112, 115, 58, 47, 47, 97>>

\* "https://b"
L_urlB == <<104, 116, 116, 112, 115, 58, 47, 47, 98>>

\* "  "
L_blank == <<32, 32>>

\* " https://a "
L_urlApadded == <<32, 104, 116, 116, 112, 115, 58, 47, 47, 97, 32>>

\* "Ann"
L_Ann == <<65, 110, 110>>

\* "12345678"
L_mobile == <<49, 50, 51, 52, 53, 54, 55, 56>>

\* "test@example.com"
L_email == <<116, 101, 115, 116, 64, 101, 120, 97, 109, 112, 108, 101, 46,
    99, 111, 109>>

\* "v1"
L_v1 == <<118, 49>>

\* "v2"
L_v2 == <<118, 50>>

\* "v3"
L_v3 == <<118, 51>>

\* "v4"
L_v4 == <<118, 52>>

\* "v5"
L_v5 == <<118, 53>>

\* "T1"
L_T1 == <<84, 49>>

\* "T2"
L_T2 == <<84, 50>>

\* "abc123"
L_abc123 == <<97, 98, 99, 49, 50, 51>>

\* "declined"
L_declined == <<100, 101, 99, 108, 105, 110, 101, 100>>

\* "bad access code"
L_badAccessCode == <<98, 97, 100, 32, 97, 99, 99, 101, 115, 115, 32, 99, 111,
    100, 101>>

\* "str"
L_str == <<115, 116, 114>>

\* "oops"
L_oops == <<111, 111, 112, 115>>

\* "{bad"
L_notJson == <<123, 98, 97, 100>>

\* "<html><body>502 Bad Gateway</body></html>"
L_html == <<60, 104, 116, 109, 108, 62, 60, 98, 111, 100, 121, 62, 53, 48,
    50, 32, 66, 97, 100, 32, 71, 97, 116, 101, 119, 97, 121, 60, 47, 98, 111,
    100, 121, 62, 60, 47, 104, 116, 109, 108, 62>>

\* "short"
L_short == <<115, 104, 111, 114, 116>>

\* "zz"
L_notHex == <<122, 122>>

\* "abcd"
L_oddHex == <<97, 98, 99, 100>>

\* "2.0"
L_version == <<50, 46, 48>>

\* "sandbox"
L_sandbox == <<115, 97, 110, 100, 98, 111, 120>>

\* "https://sandbox.hesabe.com/checkout"
L_checkoutUrl == <<104, 116, 116, 112, 115, 58, 47, 47, 115, 97, 110, 100,
    98, 111, 120, 46, 104, 101, 115, 97, 98, 101, 46, 99, 111, 109, 47, 99,
    104, 101, 99, 107, 111, 117, 116>>

\* "https://sandbox.hesabe.com/payment"
L_paymentUrl == <<104, 116, 116, 112, 115, 58, 47, 47, 115, 97, 110, 100, 98,
    111, 120, 46, 104, 101, 115, 97, 98, 101, 46, 99, 111, 109, 47, 112, 97,
    121, 109, 101, 110, 116>>

\* "842217"
L_merchantCode == <<56, 52, 50, 50, 49, 55>>

\* "c333729b-d060-4b74-a49d-7686a8353481"
L_accessCode == <<99, 51, 51, 51, 55, 50, 57, 98, 45, 100, 48, 54, 48, 45,
    52, 98, 55, 52, 45, 97, 52, 57, 100, 45, 55, 54, 56, 54, 97, 56, 51, 53,
    51, 52, 56, 49>>

\* "?data="
L_queryData == <<63, 100, 97, 116, 97, 61>>

\* "true"
L_true == <<116, 114, 117, 101>>

\* "false"
L_false == <<102, 97, 108, 115, 101>>

\* "null"
L_null == <<110, 117, 108, 108>>

\* "[object Object]"
L_objectObject == <<91, 111, 98, 106, 101, 99, 116, 32, 79, 98, 106, 101, 99,
    116, 93>>

\* "Invalid JSON in request body"
MsgInvalidJson == <<73, 110, 118, 97, 108, 105, 100, 32, 74, 83, 79, 78, 32,
    105, 110, 32, 114, 101, 113, 117, 101, 115, 116, 32, 98, 111, 100, 121>>

\* "Missing required fields: amount, currency, orderReferenceNumber, responseUrl, failureUrl"
MsgMissingFields == <<77, 105, 115, 115, 105, 110, 103, 32, 114, 101, 113,
    117, 105, 114, 101, 100, 32, 102, 105, 101, 108, 100, 115, 58, 32, 97,
    109, 111, 117, 110, 116, 44, 32, 99, 117, 114, 114, 101, 110, 99, 121,
    44, 32, 111, 114, 100, 101, 114, 82, 101, 102, 101, 114, 101, 110, 99,
    101, 78, 117, 109, 98, 101, 114, 44, 32, 114, 101, 115, 112, 111, 110,
    115, 101, 85, 114, 108, 44, 32, 102, 97, 105, 108, 117, 114, 101, 85,
    114, 108>>

\* "Hesabe checkout failed"
MsgCheckoutFailed == <<72, 101, 115, 97, 98, 101, 32, 99, 104, 101, 99, 107,
    111, 117, 116, 32, 102, 97, 105, 108, 101, 100>>

\* "Could not find payment token in Hesabe response"
MsgNoToken == <<67, 111, 117, 108, 100, 32, 110, 111, 116, 32, 102, 105, 110,
    100, 32, 112, 97, 121, 109, 101, 110, 116, 32, 116, 111, 107, 101, 110,
    32, 105, 110, 32, 72, 101, 115, 97, 98, 101, 32, 114, 101, 115, 112, 111,
    110, 115, 101>>

\* "Hesabe error"
MsgHesabeError == <<72, 101, 115, 97, 98, 101, 32, 101, 114, 114, 111, 114>>

\* "processor checkout failed"
MsgProcessorCheckoutFailed == <<112, 114, 111, 99, 101, 115, 115, 111, 114,
    32, 99, 104, 101, 99, 107, 111, 117, 116, 32, 102, 97, 105, 108, 101,
    100>>

\* The characters of each property name.
KeyText ==
    [merchantCode |-> <<109, 101, 114, 99, 104, 97, 110, 116, 67, 111, 100,
         101>>,
     amount |-> <<97, 109, 111, 117, 110, 116>>,
     paymentType |-> <<112, 97, 121, 109, 101, 110, 116, 84, 121, 112, 101>>,
     currency |-> <<99, 117, 114, 114, 101, 110, 99, 121>>,
     responseUrl |-> <<114, 101, 115, 112, 111, 110, 115, 101, 85, 114,
         108>>,
     failureUrl |-> <<102, 97, 105, 108, 117, 114, 101, 85, 114, 108>>,
     version |-> <<118, 101, 114, 115, 105, 111, 110>>,
     orderReferenceNumber |-> <<111, 114, 100, 101, 114, 82, 101, 102, 101,
         114, 101, 110, 99, 101, 78, 117, 109, 98, 101, 114>>,
     name |-> <<110, 97, 109, 101>>,
     mobile_number |-> <<109, 111, 98, 105, 108, 101, 95, 110, 117, 109, 98,
         101, 114>>,
     email |-> <<101, 109, 97, 105, 108>>,
     webhookUrl |-> <<119, 101, 98, 104, 111, 111, 107, 85, 114, 108>>,
     callbackUrl |-> <<99, 97, 108, 108, 98, 97, 99, 107, 85, 114, 108>>,
     variable1 |-> <<118, 97, 114, 105, 97, 98, 108, 101, 49>>,
     variable2 |-> <<118, 97, 114, 105, 97, 98, 108, 101, 50>>,
     variable3 |-> <<118, 97, 114, 105, 97, 98, 108, 101, 51>>,
     variable4 |-> <<118, 97, 114, 105, 97, 98, 108, 101, 52>>,
     variable5 |-> <<118, 97, 114, 105, 97, 98, 108, 101, 53>>,
     status |-> <<115, 116, 97, 116, 117, 115>>,
     message |-> <<109, 101, 115, 115, 97, 103, 101>>,
     response |-> <<114, 101, 115, 112, 111, 110, 115, 101>>,
     data |-> <<100, 97, 116, 97>>,
     token |-> <<116, 111, 107, 101, 110>>]

(***************************************************************************)
(* JSON values.  An object is the sequence of its <<name, value>> entries   *)
(* in insertion order; a property that is not there reads as undefined.     *)
(***************************************************************************)
Undefined == [t |-> "undefined"]

Null == [t |-> "null"]

Str(s) == [t |-> "string", s |-> s]

Num(n) == [t |-> "number", n |-> n]

Bool(b) == [t |-> "boolean", b |-> b]

Obj(fields) == [t |-> "object", f |-> fields]

Arr(items) == [t |-> "array", a |-> items]

IsNullish(v) == v.t \in {"undefined", "null"}

\* !!v
Truthy(v) ==
    CASE v.t \in {"undefined", "null"} -> FALSE
      [] v.t = "string" -> Len(v.s) > 0
      [] v.t = "number" -> v.n # 0
      [] v.t = "boolean" -> v.b
      [] OTHER -> TRUE

\* v[k] for a v that is neither null nor undefined, k one of the names read here
Get(v, k) ==
    IF v.t = "object" /\ \E i \in 1..Len(v.f) : v.f[i][1] = k
    THEN v.f[CHOOSE i \in 1..Len(v.f) : v.f[i][1] = k][2]
    ELSE Undefined

\* a || b
OrElse(a, b) == IF Truthy(a) THEN a ELSE b

\* Array.prototype.join
Join(ss, sep) ==
    Flatten([i \in 1..Len(ss) |-> IF i = 1 THEN ss[i] ELSE sep \o ss[i]])

RECURSIVE NumberText(_)
NumberText(n) ==
    IF n < 0 THEN <<45>> \o NumberText(0 - n)
    ELSE IF n < 10 THEN <<48 + n>>
    ELSE NumberText(n \div 10) \o <<48 + (n % 10)>>

\* A quoted JSON string: the quote and the backslash are escaped (the texts
\* used here hold no control character and no lone surrogate).
Quote(s) ==
    <<34>> \o Flatten([i \in 1..Len(s) |->
                IF s[i] \in {34, 92} THEN <<92, s[i]>> ELSE <<s[i]>>]) \o <<34>>

IsDefinedEntry(e) == e[2].t # "undefined"

\* JSON.stringify: an undefined property is left out, an undefined array
\* element is null.
RECURSIVE JSONstringify(_)
JSONstringify(v) ==
    CASE v.t = "string" -> Quote(v.s)
      [] v.t = "number" -> NumberText(v.n)
      [] v.t = "boolean" -> IF v.b THEN L_true ELSE L_false
      [] v.t = "null" -> L_null
      [] v.t = "array" ->
            <<91>> \o Join([i \in 1..Len(v.a) |->
                        IF v.a[i].t = "undefined" THEN L_null
                        ELSE JSONstringify(v.a[i])], <<44>>) \o <<93>>
      [] v.t = "object" ->
            LET kept == SelectSeq(v.f, IsDefinedEntry) IN
            <<123>> \o Join([i \in 1..Len(kept) |->
                        Quote(KeyText[kept[i][1]]) \o <<58>>
                            \o JSONstringify(kept[i][2])], <<44>>) \o <<125>>

\* String(v), as a template literal applies it
RECURSIVE ToText(_)
ToText(v) ==
    CASE v.t = "string" -> v.s
      [] v.t = "number" -> NumberText(v.n)
      [] v.t = "boolean" -> IF v.b THEN L_true ELSE L_false
      [] v.t = "array" ->
            Join([i \in 1..Len(v.a) |->
                    IF IsNullish(v.a[i]) THEN <<>> ELSE ToText(v.a[i])], <<44>>)
      [] v.t = "object" -> L_objectObject
      [] v.t = "null" -> L_null
      [] OTHER -> <<117, 110, 100, 101, 102, 105, 110, 101, 100>>

IsSpace(c) ==
    c \in {9, 10, 11, 12, 13, 32, 160, 5760, 8232, 8233, 8239, 8287, 12288, 65279}
        \/ (c >= 8192 /\ c <= 8202)

\* String.prototype.trim
RECURSIVE Trim(_)
Trim(s) ==
    IF Len(s) = 0 THEN s
    ELSE IF IsSpace(s[1]) THEN Trim(Tail(s))
    ELSE IF IsSpace(s[Len(s)]) THEN Trim(SubSeq(s, 1, Len(s) - 1))
    ELSE s

(***************************************************************************)
(* The request bodies and the processor replies the model draws from.       *)
(***************************************************************************)
RequiredKeys == {"amount", "currency", "orderReferenceNumber", "responseUrl", "failureUrl"}

BaseFields ==
    << <<"amount", Str(L_amount)>>, <<"currency", Str(L_KWD)>>,
       <<"orderReferenceNumber", Str(L_order)>>,
       <<"responseUrl", Str(L_okUrl)>>, <<"failureUrl", Str(L_failUrl)>> >>

OptionalFields ==
    << <<"name", Str(L_Ann)>>, <<"mobile_number", Str(L_mobile)>>,
       <<"email", Str(L_email)>>, <<"callbackUrl", Str(L_urlA)>>,
       <<"variable1", Str(L_v1)>>, <<"variable2", Str(L_v2)>>,
       <<"variable3", Str(L_v3)>>, <<"variable4", Str(L_v4)>>,
       <<"variable5", Str(L_v5)>> >>

FalsyValues == {Str(<<>>), Null, Num(0), Bool(FALSE)}

Without(fields, k) ==
    LET Keep(e) == e[1] # k IN SelectSeq(fields, Keep)

With(fields, k, v) ==
    [i \in 1..Len(fields) |-> IF fields[i][1] = k THEN <<k, v>> ELSE fields[i]]

MissingPayloads ==
    {Obj(Without(BaseFields, k)) : k \in RequiredKeys}
        \cup {Obj(With(BaseFields, k, v)) : k \in RequiredKeys, v \in FalsyValues}

CallbackChoices ==
    {<<>>} \cup
    {<< <<"callbackUrl", v>> >> :
        v \in {Str(<<>>), Str(L_blank), Str(L_urlA), Str(L_urlApadded),
               Num(5), Null, Bool(TRUE)}}

WebhookChoices == {<<>>, << <<"webhookUrl", Str(L_urlB)>> >>}

AliasPayloads ==
    {Obj(BaseFields \o cb \o wh) : cb \in CallbackChoices, wh \in WebhookChoices}

OtherPayloads ==
    {Obj(BaseFields \o OptionalFields), Obj(With(BaseFields, "amount", Num(10))),
     Obj(<<>>), Null, Num(5), Num(0), Bool(TRUE), Str(L_str), Arr(<<>>)}

PayloadValues == MissingPayloads \cup AliasPayloads \cup OtherPayloads

\* req.body after bodyParser.text({type: "*/*"}): the text of the body, or {}
\* when the request has none.
Bodies ==
    {Str(JSONstringify(p)) : p \in PayloadValues} \cup {Str(L_notJson), Obj(<<>>)}

StatusTrue == <<"status", Bool(TRUE)>>

StatusFalse == <<"status", Bool(FALSE)>>

ReplyBothTokens ==
    Obj(<<StatusTrue, <<"response", Obj(<< <<"data", Str(L_T1)>>, <<"token", Str(L_T2)>> >>)>> >>)

ReplyTokenOnly ==
    Obj(<<StatusTrue, <<"response", Obj(<< <<"token", Str(L_T2)>> >>)>> >>)

ReplyDataOnly ==
    Obj(<<StatusTrue, <<"response", Obj(<< <<"data", Str(L_abc123)>> >>)>> >>)

ReplyEmptyData ==
    Obj(<<StatusTrue, <<"response", Obj(<< <<"data", Str(<<>>)>>, <<"token", Str(L_T2)>> >>)>> >>)

ReplyEmptyTokens ==
    Obj(<<StatusTrue, <<"response", Obj(<< <<"data", Str(<<>>)>>, <<"token", Str(<<>>)>> >>)>> >>)

ReplyNumberToken ==
    Obj(<< <<"status", Num(1)>>, <<"response", Obj(<< <<"data", Num(77)>> >>)>> >>)

ReplyDeclined == Obj(<<StatusFalse, <<"message", Str(L_declined)>> >>)

ReplyBadAccessCode == Obj(<< <<"message", Str(L_badAccessCode)>> >>)

ReplyValues ==
    {ReplyBothTokens, ReplyTokenOnly, ReplyDataOnly, ReplyEmptyData,
     ReplyEmptyTokens, ReplyNumberToken,
     Obj(<<StatusTrue, <<"response", Obj(<<>>)>> >>),
     Obj(<<StatusTrue, <<"response", Str(L_oops)>> >>),
     Obj(<<StatusTrue, <<"response", Null>> >>),
     Obj(<<StatusTrue>>),
     ReplyDeclined,
     Obj(<<StatusFalse>>),
     Obj(<<StatusFalse, <<"message", Str(<<>>)>> >>),
     Obj(<< <<"status", Num(0)>>, <<"message", Str(L_declined)>> >>),
     Obj(<< <<"status", Null>>, <<"message", Null>> >>),
     ReplyBadAccessCode,
     Null, Num(5)}

\* The texts JSON.parse accepts, with the value each stands for.
JsonTable == {<<JSONstringify(v), v>> : v \in PayloadValues \cup ReplyValues}

\* JSON.parse
JSONparse(text) ==
    IF \E e \in JsonTable : e[1] = text
    THEN Return((CHOOSE e \in JsonTable : e[1] = text)[2])
    ELSE Throw("SyntaxError: Unexpected token in JSON")

\* The processor's own sealing: PKCS#5 padding to blocks of 32 bytes, then
\* CBC under the shared key and iv, in hex.
ProcessorBlock == 32

ProcessorSeal(text) ==
    LET bytes == utf8ToBytes(text).value
        padder == ProcessorBlock - (Len(bytes) % ProcessorBlock)
    IN hexFromBytes(cbcEncrypt(SecretKey, IvKey, bytes \o Repeat(padder, padder)).value)

\* CBC of unpadded bytes in hex: a body that opens to a text with no padding.
UnpaddedSeal(text) ==
    hexFromBytes(cbcEncrypt(SecretKey, IvKey, utf8ToBytes(text).value).value)

ReplyData ==
    {ProcessorSeal(JSONstringify(v)) : v \in ReplyValues}
        \cup {ProcessorSeal(L_html),
              encryptAes(SecretKey, IvKey, JSONstringify(ReplyDataOnly)).value,
              encryptAes(SecretKey, IvKey, L_short).value,
              UnpaddedSeal(Repeat(32, 97)),
              L_notHex, L_oddHex, <<>>}

ErrorData ==
    {ProcessorSeal(JSONstringify(ReplyBadAccessCode)), ProcessorSeal(L_html),
     encryptAes(SecretKey, IvKey, L_short).value, UnpaddedSeal(Repeat(32, 97)),
     L_notHex, <<>>}

NoResponse == [none |-> TRUE]

\* How the awaited axios.post settles: resolved with a 2xx response, rejected
\* with the response of another status, or rejected with no response at all.
Replies ==
    {[resolved |-> TRUE, response |-> [status |-> 200, data |-> Str(d)]] : d \in ReplyData}
        \cup {[resolved |-> FALSE, response |-> [status |-> s, data |-> Str(d)]] :
                s \in {401, 500}, d \in ErrorData}
        \cup {[resolved |-> FALSE, response |-> [status |-> 502, data |-> Null]],
              [resolved |-> FALSE, response |-> NoResponse]}

(***************************************************************************)
(* Configuration read once at startup (sandbox environment).                *)
(***************************************************************************)
Config0 ==
    [env |-> L_sandbox, checkoutUrl |-> L_checkoutUrl, paymentUrl |-> L_paymentUrl,
     merchantCode |-> L_merchantCode, accessCode |-> L_accessCode]

\* encryptAes builds a fresh cbc object from this.key and this.iv on every
\* call and assigns neither field: the iv after a call is the iv before it.
ivAfterEncrypt_chained(v, encHex) ==
    LET bytes == hexToBytes(encHex) IN BlockOf(bytes, Len(bytes) \div BlockSize)

ivAfterEncrypt(v, encHex) == v

(***************************************************************************)
(* POST /hesabe/create-indirect-payment                                     *)
(***************************************************************************)
Result(status, fields) == [status |-> status, body |-> Obj(fields)]

NoResult == [status |-> 0, body |-> Undefined]

Error(message, response) == [message |-> message, response |-> response]

\* 1) Parse JSON manually from text body
ParseBody(body) ==
    IF body.t = "string" THEN JSONparse(body.s)
    ELSE Return(OrElse(body, Obj(<<>>)))

InvalidJsonResult(body) ==
    Result(400, << <<"success", Bool(FALSE)>>, <<"message", Str(MsgInvalidJson)>>,
                   <<"rawBody", body>> >>)

MissingRequired(payload) ==
    \/ ~Truthy(Get(payload, "amount"))
    \/ ~Truthy(Get(payload, "currency"))
    \/ ~Truthy(Get(payload, "orderReferenceNumber"))
    \/ ~Truthy(Get(payload, "responseUrl"))
    \/ ~Truthy(Get(payload, "failureUrl"))

MissingFieldsResult(payload) ==
    Result(400, << <<"success", Bool(FALSE)>>, <<"message", Str(MsgMissingFields)>>,
                   <<"received", payload>> >>)

ResolveWebhookUrl_webhookFirst(callbackUrl, incomingWebhookUrl) ==
    IF Truthy(incomingWebhookUrl) THEN Return(incomingWebhookUrl)
    ELSE Return(callbackUrl)

\* Decide final webhook url: prefer callbackUrl, else webhookUrl, else undefined.
\* A truthy callbackUrl that is no string has no trim method.
ResolveWebhookUrl(callbackUrl, incomingWebhookUrl) ==
    IF ~Truthy(callbackUrl) THEN Return(incomingWebhookUrl)
    ELSE IF callbackUrl.t # "string"
    THEN Throw("TypeError: callbackUrl.trim is not a function")
    ELSE IF Len(Trim(callbackUrl.s)) > 0 THEN Return(callbackUrl)
    ELSE Return(incomingWebhookUrl)

\* 3.1 Build request payload expected by Hesabe (Indirect Payment)
BuildRequestPayload(payload, webhookUrl, cfg) ==
    Obj(<< <<"merchantCode", Str(cfg.merchantCode)>>,
           <<"amount", Get(payload, "amount")>>,
           <<"paymentType", Num(0)>>,
           <<"currency", Get(payload, "currency")>>,
           <<"responseUrl", Get(payload, "responseUrl")>>,
           <<"failureUrl", Get(payload, "failureUrl")>>,
           <<"version", Str(L_version)>>,
           <<"orderReferenceNumber", Get(payload, "orderReferenceNumber")>>,
           <<"name", Get(payload, "name")>>,
           <<"mobile_number", Get(payload, "mobile_number")>>,
           <<"email", Get(payload, "email")>>,
           <<"webhookUrl", webhookUrl>>,
           <<"variable1", Get(payload, "variable1")>>,
           <<"variable2", Get(payload, "variable2")>>,
           <<"variable3", Get(payload, "variable3")>>,
           <<"variable4", Get(payload, "variable4")>>,
           <<"variable5", Get(payload, "variable5")>> >>)

CheckoutFailedResult_defaultOnly(decryptedJson) ==
    Result(400, << <<"success", Bool(FALSE)>>, <<"message", Str(MsgCheckoutFailed)>>,
                   <<"hesabeRaw", decryptedJson>> >>)

CheckoutFailedResult(decryptedJson) ==
    Result(400, << <<"success", Bool(FALSE)>>,
                   <<"message", OrElse(Get(decryptedJson, "message"), Str(MsgCheckoutFailed))>>,
                   <<"hesabeRaw", decryptedJson>> >>)

\* x?.k
GetOptional(v, k) == IF IsNullish(v) THEN Undefined ELSE Get(v, k)

ExtractToken_tokenFirst(decryptedJson) ==
    LET response == GetOptional(decryptedJson, "response") IN
    OrElse(GetOptional(response, "token"), OrElse(GetOptional(response, "data"), Null))

\* decryptedJson?.response?.data || decryptedJson?.response?.token || null
ExtractToken(decryptedJson) ==
    LET response == GetOptional(decryptedJson, "response") IN
    OrElse(GetOptional(response, "data"), OrElse(GetOptional(response, "token"), Null))

NoTokenResult(decryptedJson) ==
    Result(500, << <<"success", Bool(FALSE)>>, <<"message", Str(MsgNoToken)>>,
                   <<"hesabeRaw", decryptedJson>> >>)

SuccessResult(token, decryptedJson, cfg) ==
    Result(200, << <<"success", Bool(TRUE)>>,
                   <<"paymentUrl", Str(cfg.paymentUrl \o L_queryData \o ToText(token))>>,
                   <<"hesabeResponse", decryptedJson>>,
                   <<"environment", Str(cfg.env)>> >>)

ErrorResult(err, hesabeError, cfg) ==
    Result(IF err.response # NoResponse /\ err.response.status # 0
           THEN err.response.status ELSE 500,
           << <<"success", Bool(FALSE)>>, <<"message", Str(MsgHesabeError)>>,
              <<"hesabeError", hesabeError>>, <<"environment", Str(cfg.env)>> >>)

HasStringBody(err) == err.response # NoResponse /\ err.response.data.t = "string"

CatchBlock_noInnerTry(err, k, v, cfg) ==
    IF HasStringBody(err)
    THEN LET dec == decryptAes(k, v, err.response.data.s) IN
         IF dec.ok THEN Return(ErrorResult(err, Str(dec.value), cfg))
         ELSE Throw(Error(dec.error, NoResponse))
    ELSE Return(ErrorResult(err, Null, cfg))

CatchBlock_rawBody(err, k, v, cfg) ==
    IF HasStringBody(err)
    THEN Return(ErrorResult(err, err.response.data, cfg))
    ELSE Return(ErrorResult(err, Null, cfg))

\* catch (err): the error body is decrypted when there is one and it is a
\* string, the raw body kept when that decryption throws.
CatchBlock(err, k, v, cfg) ==
    IF HasStringBody(err)
    THEN LET dec == decryptAes(k, v, err.response.data.s) IN
         Return(ErrorResult(err, IF dec.ok THEN Str(dec.value) ELSE err.response.data, cfg))
    ELSE Return(ErrorResult(err, Null, cfg))

\* The handler up to the await of axios.post.  steps: what the request went
\* through; sent: the POST was issued; thrown: the error the try block threw.
Outcome(steps, requestPayload, encryptedData, encrypts, sent, returned, thrown) ==
    [steps |-> steps, requestPayload |-> requestPayload,
     encryptedData |-> encryptedData, encrypts |-> encrypts, sent |-> sent,
     returned |-> returned, thrown |-> thrown]

NotThrown == [none |-> TRUE]

BeforeAwait(body, k, v, cfg) ==
    LET parsed == ParseBody(body) IN
    IF ~parsed.ok
    THEN Outcome(<<>>, Undefined, <<>>, 0, FALSE, InvalidJsonResult(body), NotThrown)
    ELSE LET payload == parsed.value IN
    IF IsNullish(payload)
    THEN Outcome(<<>>, Undefined, <<>>, 0, FALSE, NoResult,
                 Error("TypeError: Cannot destructure property 'amount'", NoResponse))
    ELSE IF MissingRequired(payload)
    THEN Outcome(<<>>, Undefined, <<>>, 0, FALSE, MissingFieldsResult(payload), NotThrown)
    ELSE LET hook == ResolveWebhookUrl(Get(payload, "callbackUrl"),
                                       Get(payload, "webhookUrl")) IN
    IF ~hook.ok
    THEN Outcome(<<"Validated">>, Undefined, <<>>, 0, FALSE, NoResult,
                 Error(hook.error, NoResponse))
    ELSE LET requestPayload == BuildRequestPayload(payload, hook.value, cfg)
             enc == encryptAes(k, v, JSONstringify(requestPayload)) IN
    IF ~enc.ok
    THEN Outcome(<<"Validated">>, requestPayload, <<>>, 1, FALSE, NoResult,
                 Error(enc.error, NoResponse))
    ELSE Outcome(<<"Validated", "Sealed", "Sent">>, requestPayload, enc.value, 1,
                 TRUE, NoResult, NotThrown)

\* The try block after the await: the rejection of axios.post is thrown, the
\* body of a resolved response is opened, parsed and interpreted.
AfterAwait(reply, k, v, cfg) ==
    IF ~reply.resolved
    THEN Throw(Error("Request failed", reply.response))
    ELSE LET dec == decryptAes(k, v, reply.response.data.s) IN
    IF ~dec.ok THEN Throw(Error(dec.error, NoResponse))
    ELSE LET parsed == JSONparse(dec.value) IN
    IF ~parsed.ok THEN Throw(Error(parsed.error, NoResponse))
    ELSE LET decryptedJson == parsed.value IN
    IF IsNullish(decryptedJson)
    THEN Throw(Error("TypeError: Cannot read properties of null (reading 'status')",
                     NoResponse))
    ELSE IF ~Truthy(Get(decryptedJson, "status"))
    THEN Return(CheckoutFailedResult(decryptedJson))
    ELSE LET token == ExtractToken(decryptedJson) IN
    IF ~Truthy(token) THEN Return(NoTokenResult(decryptedJson))
    ELSE Return(SuccessResult(token, decryptedJson, cfg))

(***************************************************************************)
(* One request: its position, its locals and what it has done so far.       *)
(***************************************************************************)
NoReply == [none |-> TRUE]

IdleRequest ==
    [pc |-> "Idle", body |-> Undefined, requestPayload |-> Undefined,
     encryptedData |-> <<>>, encrypts |-> 0, posts |-> 0, responses |-> 0,
     thrown |-> NotThrown, reply |-> NoReply, result |-> NoResult, trace |-> <<>>]

IsSuccess(result) == Get(result.body, "success") = Bool(TRUE)

\* A result sent with res.json ends the request; an error thrown in the try
\* block goes through the catch block; an error thrown by the catch block
\* itself leaves the request without a result.
Settle(q, returned, thrown, k, v, cfg) ==
    LET out == IF thrown = NotThrown THEN Return(returned)
               ELSE CatchBlock(thrown, k, v, cfg)
    IN IF out.ok
       THEN [q EXCEPT !.pc = "Done", !.thrown = thrown, !.result = out.value,
                      !.responses = @ + 1,
                      !.trace = @ \o <<IF IsSuccess(out.value) THEN "Succeeded"
                                       ELSE "Failed">>]
       ELSE [q EXCEPT !.pc = "Escaped", !.thrown = thrown]

Receive(r, body) ==
    /\ reqs[r].pc = "Idle"
    /\ reqs' = [reqs EXCEPT ![r] = [@ EXCEPT !.pc = "Received", !.body = body,
                                            !.trace = <<"Received">>]]
    /\ UNCHANGED <<key, iv, config, input, encOut, decOut, stripOut>>

HandleRequest(r) ==
    /\ reqs[r].pc = "Received"
    /\ LET o == BeforeAwait(reqs[r].body, key, iv, config)
           q == [reqs[r] EXCEPT !.requestPayload = o.requestPayload,
                                !.encryptedData = o.encryptedData,
                                !.encrypts = @ + o.encrypts,
                                !.posts = @ + (IF o.sent THEN 1 ELSE 0),
                                !.trace = @ \o o.steps]
       IN /\ reqs' = [reqs EXCEPT ![r] =
                        IF o.sent THEN [q EXCEPT !.pc = "Sent"]
                        ELSE Settle(q, o.returned, o.thrown, key, iv, config)]
          /\ iv' = IF o.encrypts > 0 /\ o.encryptedData # <<>>
                   THEN ivAfterEncrypt(iv, o.encryptedData) ELSE iv
    /\ UNCHANGED <<key, config, input, encOut, decOut, stripOut>>

AfterReply_retry(q, reply, k, v, cfg) ==
    LET out == AfterAwait(reply, k, v, cfg) IN
    IF ~out.ok /\ q.posts < 2
    THEN [q EXCEPT !.posts = @ + 1, !.trace = @ \o <<"Failed", "Sent">>]
    ELSE Settle([q EXCEPT !.reply = reply], NoResult, Error("retries exhausted", NoResponse),
                k, v, cfg)

AfterReply(q, reply, k, v, cfg) ==
    LET out == AfterAwait(reply, k, v, cfg) IN
    Settle([q EXCEPT !.reply = reply],
           IF out.ok THEN out.value ELSE NoResult,
           IF out.ok THEN NotThrown ELSE out.error, k, v, cfg)

HandleReply(r, reply) ==
    /\ reqs[r].pc = "Sent"
    /\ reqs' = [reqs EXCEPT ![r] = AfterReply(reqs[r], reply, key, iv, config)]
    /\ UNCHANGED <<key, iv, config, input, encOut, decOut, stripOut>>

InitHandler ==
    /\ key = SecretKey
    /\ iv = IvKey
    /\ config = Config0
    /\ input = <<>>
    /\ encOut = None
    /\ decOut = None
    /\ stripOut = None
    /\ reqs = <<IdleRequest>>

NextHandler ==
    \/ \E body \in Bodies : Receive(1, body)
    \/ HandleRequest(1)
    \/ \E reply \in Replies : HandleReply(1, reply)

SpecHandler == InitHandler /\ [][NextHandler]_vars

(***************************************************************************)
(* Several requests whose handlers interleave at the await.                 *)
(***************************************************************************)
NReq == 2

ConcBodies ==
    {Str(JSONstringify(Obj(BaseFields \o OptionalFields))),
     Str(JSONstringify(Obj(BaseFields))),
     Str(JSONstringify(Obj(Without(BaseFields, "amount"))))}

ConcReplies ==
    {[resolved |-> TRUE,
      response |-> [status |-> 200, data |-> Str(ProcessorSeal(JSONstringify(ReplyBothTokens)))]],
     [resolved |-> TRUE,
      response |-> [status |-> 200, data |-> Str(ProcessorSeal(JSONstringify(ReplyDeclined)))]],
     [resolved |-> FALSE,
      response |-> [status |-> 401,
                    data |-> Str(ProcessorSeal(JSONstringify(ReplyBadAccessCode)))]]}

InitConc ==
    /\ key = SecretKey
    /\ iv = IvKey
    /\ config = Config0
    /\ input = <<>>
    /\ encOut = None
    /\ decOut = None
    /\ stripOut = None
    /\ reqs = [r \in 1..NReq |-> IdleRequest]

NextConc ==
    \/ \E r \in 1..NReq, body \in ConcBodies : Receive(r, body)
    \/ \E r \in 1..NReq : HandleRequest(r)
    \/ \E r \in 1..NReq, reply \in ConcReplies : HandleReply(r, reply)

SpecConc == InitConc /\ [][NextConc]_vars

(***************************************************************************)
(* Claims about the handler                                                 *)
(***************************************************************************)
Steps(q) == {q.trace[i] : i \in DOMAIN q.trace}

Started(q) == q.pc \notin {"Idle", "Received"}

\* The JSON value a body stands for: the body itself when it is an object,
\* what its text parses to when it is a string.
PayloadOf(body) == IF body.t = "string" THEN JSONparse(body.s) ELSE Return(body)

FieldOf(p, k) == IF p.t = "object" THEN Get(p, k) ELSE Undefined

LacksRequired(p) == \E k \in RequiredKeys : ~Truthy(FieldOf(p, k))

\* What a resolved reply opens and parses to.
DecryptedReply(reply) ==
    LET dec == decryptAes(key, iv, reply.response.data.s) IN
    IF dec.ok THEN JSONparse(dec.value) ELSE dec

Present(v) == ~IsNullish(v)

\* C3: a request whose payload (an object, or a string that encodes any JSON
\* value) lacks one of the five required fields ends with success:false and
\* the missing-required-fields message, and neither encryptAes nor the POST
\* is executed for it.
C3_MissingFieldsRejected ==
    \A r \in DOMAIN reqs :
        LET q == reqs[r] IN
        (Started(q) /\ PayloadOf(q.body).ok /\ LacksRequired(PayloadOf(q.body).value)) =>
            /\ q.pc = "Done"
            /\ Get(q.result.body, "success") = Bool(FALSE)
            /\ Get(q.result.body, "message") = Str(MsgMissingFields)
            /\ q.encrypts = 0
            /\ q.posts = 0

\* C4: whenever a step of an accepted request throws (building the payload,
\* sealing, the POST, opening or interpreting the reply), the handler sends
\* exactly one result and that result has success:false.
C4_NoExceptionEscapes ==
    \A r \in DOMAIN reqs :
        LET q == reqs[r] IN
        /\ q.pc # "Escaped"
        /\ ("Validated" \in Steps(q) /\ q.thrown # NotThrown) =>
            /\ q.pc = "Done"
            /\ q.responses = 1
            /\ Get(q.result.body, "success") = Bool(FALSE)
        /\ q.pc = "Done" => q.responses = 1

C4_Witness ==
    \E r \in DOMAIN reqs :
        /\ reqs[r].pc = "Done"
        /\ reqs[r].reply # NoReply
        /\ reqs[r].reply.resolved
        /\ reqs[r].thrown # NotThrown
        /\ reqs[r].thrown.message = "PKCS#5 padding byte out of range"
        /\ Get(reqs[r].result.body, "success") = Bool(FALSE)

\* C5: when the POST is rejected with a response whose body is a string, the
\* result's hesabeError is the decrypted body when decryptAes succeeds on it
\* and the raw body when decryptAes throws, and the result is success:false.
C5_ErrorBodyRecovered ==
    \A r \in DOMAIN reqs :
        LET q == reqs[r] IN
        (q.reply # NoReply /\ ~q.reply.resolved /\ q.reply.response # NoResponse
            /\ q.reply.response.data.t = "string") =>
            LET dec == decryptAes(SecretKey, IvKey, q.reply.response.data.s) IN
            /\ q.pc = "Done"
            /\ Get(q.result.body, "success") = Bool(FALSE)
            /\ dec.ok => Get(q.result.body, "hesabeError") = Str(dec.value)
            /\ ~dec.ok => Get(q.result.body, "hesabeError") = q.reply.response.data

C5_Witness ==
    \E r \in DOMAIN reqs :
        /\ reqs[r].pc = "Done"
        /\ reqs[r].reply # NoReply
        /\ ~reqs[r].reply.resolved
        /\ Get(reqs[r].result.body, "hesabeError") = Str(JSONstringify(ReplyBadAccessCode))
        /\ reqs[r].result.status = 401

\* C6 (as stated): when the reply opens to a response with a falsy status,
\* the result is success:false with no paymentUrl, its message is the
\* processor's message when one is present and "processor checkout failed"
\* when there is none, and the decrypted body is attached.
C6_FailureSurfacedAsStated ==
    \A r \in DOMAIN reqs :
        LET q == reqs[r] IN
        (q.reply # NoReply /\ q.reply.resolved /\ DecryptedReply(q.reply).ok
            /\ Present(DecryptedReply(q.reply).value)
            /\ ~Truthy(FieldOf(DecryptedReply(q.reply).value, "status"))) =>
            LET json == DecryptedReply(q.reply).value IN
            /\ Get(q.result.body, "success") = Bool(FALSE)
            /\ Get(q.result.body, "paymentUrl") = Undefined
            /\ Get(q.result.body, "hesabeRaw") = json
            /\ Get(q.result.body, "message") =
                    IF Present(FieldOf(json, "message")) THEN FieldOf(json, "message")
                    ELSE Str(MsgProcessorCheckoutFailed)

\* C6 (amended): as above, but the message is the processor's message when
\* that is truthy (a non-empty string) and "Hesabe checkout failed" otherwise.
C6_FailureSurfaced ==
    \A r \in DOMAIN reqs :
        LET q == reqs[r] IN
        (q.reply # NoReply /\ q.reply.resolved /\ DecryptedReply(q.reply).ok
            /\ Present(DecryptedReply(q.reply).value)
            /\ ~Truthy(FieldOf(DecryptedReply(q.reply).value, "status"))) =>
            LET json == DecryptedReply(q.reply).value IN
            /\ q.pc = "Done"
            /\ q.result.status = 400
            /\ Get(q.result.body, "success") = Bool(FALSE)
            /\ Get(q.result.body, "paymentUrl") = Undefined
            /\ Get(q.result.body, "hesabeRaw") = json
            /\ Get(q.result.body, "message") =
                    IF Truthy(FieldOf(json, "message")) THEN FieldOf(json, "message")
                    ELSE Str(MsgCheckoutFailed)

C6_Witness ==
    \E r \in DOMAIN reqs :
        /\ reqs[r].pc = "Done"
        /\ Get(reqs[r].result.body, "hesabeRaw") = ReplyDeclined
        /\ Get(reqs[r].result.body, "message") = Str(L_declined)

\* A field of the decrypted body's response object; undefined when the
\* body has no response object.
ResponseField(json, k) ==
    IF FieldOf(json, "response").t = "object" THEN Get(FieldOf(json, "response"), k)
    ELSE Undefined

TruthyStatusReply(q) ==
    /\ q.reply # NoReply
    /\ q.reply.resolved
    /\ DecryptedReply(q.reply).ok
    /\ Present(DecryptedReply(q.reply).value)
    /\ Truthy(FieldOf(DecryptedReply(q.reply).value, "status"))

TokenOutcome(q, json, token) ==
    IF token # Undefined
    THEN /\ Get(q.result.body, "success") = Bool(TRUE)
         /\ Get(q.result.body, "paymentUrl") =
                Str(L_paymentUrl \o L_queryData \o ToText(token))
    ELSE /\ Get(q.result.body, "success") = Bool(FALSE)
         /\ Get(q.result.body, "hesabeRaw") = json
         /\ Get(q.result.body, "paymentUrl") = Undefined

\* C7 (as stated): with a truthy status the token is response.data when
\* that is present, otherwise response.token when that is present; the
\* result is success:true with paymentUrl = payment URL + "?data=" + token;
\* with neither present it is success:false with the decrypted body and no
\* paymentUrl.
C7_TokenPrecedenceAsStated ==
    \A r \in DOMAIN reqs :
        LET q == reqs[r] IN
        TruthyStatusReply(q) =>
            LET json == DecryptedReply(q.reply).value
                data == ResponseField(json, "data")
                token == ResponseField(json, "token")
            IN TokenOutcome(q, json, IF Present(data) THEN data
                                     ELSE IF Present(token) THEN token
                                     ELSE Undefined)

\* C7 (amended): the same with "truthy" (present and not an empty string, 0,
\* false or null) in place of "present", for data and for token.
C7_TokenPrecedence ==
    \A r \in DOMAIN reqs :
        LET q == reqs[r] IN
        TruthyStatusReply(q) =>
            LET json == DecryptedReply(q.reply).value
                data == ResponseField(json, "data")
                token == ResponseField(json, "token")
            IN /\ q.pc = "Done"
               /\ TokenOutcome(q, json, IF Truthy(data) THEN data
                                        ELSE IF Truthy(token) THEN token
                                        ELSE Undefined)

C7_Witness ==
    \E r \in DOMAIN reqs :
        /\ reqs[r].pc = "Done"
        /\ Get(reqs[r].result.body, "hesabeResponse") = ReplyBothTokens
        /\ Get(reqs[r].result.body, "paymentUrl") = Str(L_paymentUrl \o L_queryData \o L_T1)

Accepted(q) ==
    /\ Started(q)
    /\ PayloadOf(q.body).ok
    /\ ~LacksRequired(PayloadOf(q.body).value)

HasNonSpace(s) == \E i \in 1..Len(s) : ~IsSpace(s[i])

Rank(step) ==
    CASE step = "Received" -> 1
      [] step = "Validated" -> 2
      [] step = "Sealed" -> 3
      [] step = "Sent" -> 4
      [] step \in {"Succeeded", "Failed"} -> 5

\* C9: the steps of a request occur in the order Received, Validated, Sealed,
\* Sent, then one of Succeeded or Failed; Validated, Sealed and Sent each
\* directly follow the step before them and Succeeded follows Sent; the POST
\* is issued at most once, only after Validated and Sealed, never again after
\* a failure; nothing follows the terminal outcome.
C9_StepOrder ==
    \A r \in DOMAIN reqs :
        LET q == reqs[r]
            t == q.trace
        IN /\ \A i, j \in DOMAIN t : i < j => Rank(t[i]) < Rank(t[j])
           /\ \A i \in DOMAIN t :
                /\ Rank(t[i]) = 1 => i = 1
                /\ Rank(t[i]) \in 2..4 => (i > 1 /\ Rank(t[i - 1]) = Rank(t[i]) - 1)
                /\ t[i] = "Succeeded" => (i > 1 /\ t[i - 1] = "Sent")
           /\ q.posts = Cardinality({i \in DOMAIN t : t[i] = "Sent"})
           /\ q.posts <= 1
           /\ q.encrypts <= 1
           /\ q.posts = 1 => q.encrypts = 1
           /\ (q.pc = "Done") = (\E i \in DOMAIN t : Rank(t[i]) = 5)
           /\ (q.pc = "Sent") = (t # <<>> /\ t[Len(t)] = "Sent")

C9_Witness ==
    \E r \in DOMAIN reqs :
        /\ reqs[r].trace = <<"Received", "Validated", "Sealed", "Sent", "Failed">>
        /\ ~reqs[r].reply.resolved
        /\ reqs[r].posts = 1

\* The result a request gets when it is the only one: its handler run on its
\* own body and reply under the startup key, iv and configuration (a request
\* that ends before the POST has no reply).
ResultAlone(body, reply) ==
    LET Caught(err) == CatchBlock(err, SecretKey, IvKey, Config0).value
        o == BeforeAwait(body, SecretKey, IvKey, Config0)
        a == AfterAwait(reply, SecretKey, IvKey, Config0)
    IN IF ~o.sent
       THEN (IF o.thrown = NotThrown THEN o.returned ELSE Caught(o.thrown))
       ELSE (IF a.ok THEN a.value ELSE Caught(a.error))

EndsBeforePost(body) == ~BeforeAwait(body, SecretKey, IvKey, Config0).sent

\* <<body, reply, result alone>> for every body and reply of the requests.
RunsAlone ==
    {<<b, NoReply, ResultAlone(b, NoReply)>> : b \in {x \in ConcBodies : EndsBeforePost(x)}}
        \cup {<<b, rp, ResultAlone(b, rp)>> :
                b \in {x \in ConcBodies : ~EndsBeforePost(x)}, rp \in ConcReplies}

\* C10: in every state reached by interleaved requests the key, the iv and
\* the configuration are those of startup, and the result of each finished
\* request is the one it gets when it runs alone on its body and its reply.
C10_Independence ==
    /\ key = SecretKey
    /\ iv = IvKey
    /\ config = Config0
    /\ \A r \in DOMAIN reqs :
        reqs[r].pc = "Done" => <<reqs[r].body, reqs[r].reply, reqs[r].result>> \in RunsAlone

C10_Witness ==
    /\ reqs[1].pc = "Done"
    /\ reqs[2].pc = "Done"
    /\ reqs[1].posts = 1
    /\ reqs[2].posts = 1
    /\ IsSuccess(reqs[1].result)
    /\ reqs[2].result.status = 401

(***************************************************************************)
(* The envelope on its own: an input text is sealed, the result opened, and *)
(* the text is also handed to pkcs5Strip as a decrypted text.               *)
(***************************************************************************)
FillChars == {97, 233, 8364}

LastCodes == {0, 1, 16, 31, 32, 33, 97, 127, 233, 65535}

\* U+1F600 as a surrogate pair, and the high surrogate alone.
AstralPair == <<55357, 56832>>

PlainTexts ==
    {Repeat(n, c) : n \in 0..MaxTextLen, c \in FillChars}
        \cup {Repeat(n, 97) \o AstralPair : n \in {0, 14, 30}}
        \cup {Repeat(n, 97) \o <<55357>> : n \in {0, 30}}

DataTexts ==
    {Repeat(n - 1, 120) \o <<c>> : n \in 1..MaxTextLen, c \in LastCodes}

InitCrypt ==
    /\ key = SecretKey
    /\ iv = IvKey
    /\ input \in PlainTexts \cup DataTexts
    /\ encOut = None
    /\ decOut = None
    /\ stripOut = None
    /\ config = Config0
    /\ reqs = <<>>

EncryptStep ==
    /\ encOut = None
    /\ encOut' = encryptAes(key, iv, input)
    /\ UNCHANGED <<key, iv, config, input, decOut, stripOut, reqs>>

DecryptStep ==
    /\ encOut.ok
    /\ decOut = None
    /\ decOut' = decryptAes(key, iv, encOut.value)
    /\ UNCHANGED <<key, iv, config, input, encOut, stripOut, reqs>>

StripStep ==
    /\ stripOut = None
    /\ stripOut' = pkcs5Strip(input)
    /\ UNCHANGED <<key, iv, config, input, encOut, decOut, reqs>>

NextCrypt == EncryptStep \/ DecryptStep \/ StripStep

SpecCrypt == InitCrypt /\ [][NextCrypt]_vars

(***************************************************************************)
(* Claims about the envelope                                                *)
(***************************************************************************)
HasSurrogate(s) == \E i \in 1..Len(s) : s[i] >= 55296 /\ s[i] <= 57343

ByteWidth(c) == IF c < 128 THEN 1 ELSE IF c < 2048 THEN 2 ELSE 3

RECURSIVE ByteLength(_)
ByteLength(s) == IF Len(s) = 0 THEN 0 ELSE ByteWidth(Head(s)) + ByteLength(Tail(s))

PadLength(s) == 16 - (ByteLength(s) % 16)

\* C1 (as stated): opening the sealed form of any plaintext returns exactly
\* that plaintext, whatever its length or characters.
C1_RoundTripAll == decOut # None => decOut = Return(input)

\* C1 (amended): for a plaintext with no surrogate code units, opening the
\* sealed text returns the plaintext when its character count plus the
\* PKCS#7 pad length is at least 32, and throws the data-length error when
\* it is less. A plaintext with a surrogate code unit never comes back
\* unchanged: sealing throws on an unpaired surrogate, and a surrogate pair
\* opens to other characters.
C1_RoundTripLongEnough ==
    /\ (encOut # None /\ Utf8Malformed(input)) => ~encOut.ok
    /\ (decOut # None /\ HasSurrogate(input)) => decOut # Return(input)
    /\ (decOut # None /\ ~HasSurrogate(input)) =>
        IF Len(input) + PadLength(input) >= 32
        THEN decOut = Return(input)
        ELSE ~decOut.ok /\ decOut.error = "Invalid data length. Block size must be 32 bytes"

C1_Witness ==
    /\ decOut = Return(input)
    /\ Len(input) = 31
    /\ input[1] = 233

\* C2: pkcs5Strip fails on a text of fewer than 32 characters, fails when the
\* last character's code is above 32, and otherwise returns the text without
\* its last v characters, v being that code.
C2_PaddingBoundary ==
    stripOut # None =>
        LET n == Len(input) IN
        /\ n < 32 => ~stripOut.ok
        /\ (n >= 32 /\ input[n] > 32) => ~stripOut.ok
        /\ (n >= 32 /\ input[n] <= 32) =>
            /\ stripOut.ok
            /\ Len(stripOut.value) = n - input[n]
            /\ \A i \in 1..(n - input[n]) : stripOut.value[i] = input[i]

C2_Witness ==
    /\ stripOut # None
    /\ Len(input) = 32
    /\ input[32] = 32
    /\ stripOut = Return(<<>>)

====
